---- MODULE Spec2Model ----
(***************************************************************************)
(* Router Manager: a model of                                              *)
(*   - the nftables workflow (webapp/nftables_mgr, webapp/network):        *)
(*     database rows, the post_save / post_delete signal handlers,         *)
(*     NFTablesConfigManager and the apply_network_config command;         *)
(*   - the monitoring loop (webapp/monitoring): SystemMonitor's collection *)
(*     cycle, check_alerts and the Celery tasks with their retries;        *)
(*   - the two run_command helpers (network.utils, dashboard.utils).       *)
(***************************************************************************)
EXTENDS Integers, Sequences, FiniteSets, TLC

(***************************************************************************)
(* Bounds of the model.                                                    *)
(***************************************************************************)
\* database changes (saves and deletes) explored in one behaviour
MaxChanges == 2

\* subprocesses that fail (a non-zero exit, or no execution at all) in one
\* behaviour
MaxFailures == 1

\* request workers (web server threads / processes) serving concurrently
Procs == {"w1", "w2"}

(***************************************************************************)
(* Values.  Python's None and the empty string are both falsy in every     *)
(* test the code makes of an address, and None and 0 in every test it      *)
(* makes of a port: "" stands for a missing address and 0 for a missing    *)
(* port.                                                                   *)
(***************************************************************************)
NoIp == ""
NoPort == 0
NoFile == [absent |-> TRUE]

\* str(port), as the f-strings format it
PortStr(n) ==
    CASE n = 22 -> "22"
      [] n = 80 -> "80"
      [] n = 443 -> "443"
      [] n = 8080 -> "8080"
      [] OTHER -> "0"

\* field values the requests are drawn from
PfExternalPorts == {80}
PfProtocols == {"tcp", "udp"}
PfInternalIps == {"10.0.0.2"}
PfInternalPorts == {8080}

\* the firewall rules the requests are drawn from
FwTemplates ==
    { [name |-> "ssh", protocol |-> "tcp", source_ip |-> "10.0.0.9",
       source_port |-> NoPort, destination_ip |-> NoIp,
       destination_port |-> 22, action |-> "accept", priority |-> 100] }

(***************************************************************************)
(* Rows of the two tables.                                                 *)
(***************************************************************************)
PortForward(pk, ext, ip, port, proto, en) ==
    [pk |-> pk, external_port |-> ext, internal_ip |-> ip,
     internal_port |-> port, protocol |-> proto, enabled |-> en]

NFTableRule(pk, t, en) ==
    [pk |-> pk, name |-> t.name, protocol |-> t.protocol,
     source_ip |-> t.source_ip, source_port |-> t.source_port,
     destination_ip |-> t.destination_ip,
     destination_port |-> t.destination_port, action |-> t.action,
     priority |-> t.priority, enabled |-> en]

\* Meta.unique_together = ["external_port", "protocol"]: what the ModelForm's
\* validate_unique and the database constraint both enforce on an insert
UniqueTogetherMutant(rows, ext, proto) == TRUE
UniqueTogether(rows, ext, proto) ==
    \A r \in rows : ~(r.external_port = ext /\ r.protocol = proto)

\* Meta.ordering = ["external_port"]; rows with equal keys in primary-key order
PfBefore(a, b) ==
    \/ a.external_port < b.external_port
    \/ a.external_port = b.external_port /\ a.pk < b.pk

\* Meta.ordering = ["priority", "name"]; names compared through their rank
NameRank(n) == CASE n = "ping" -> 1 [] n = "ssh" -> 2 [] n = "web" -> 3 [] OTHER -> 4

FwBefore(a, b) ==
    \/ a.priority < b.priority
    \/ a.priority = b.priority /\ NameRank(a.name) < NameRank(b.name)
    \/ a.priority = b.priority /\ a.name = b.name /\ a.pk < b.pk

RECURSIVE PfOrdered(_)
PfOrdered(rows) ==
    IF rows = {} THEN <<>>
    ELSE LET first == CHOOSE r \in rows : \A o \in rows \ {r} : PfBefore(r, o)
         IN <<first>> \o PfOrdered(rows \ {first})

RECURSIVE FwOrdered(_)
FwOrdered(rows) ==
    IF rows = {} THEN <<>>
    ELSE LET first == CHOOSE r \in rows : \A o \in rows \ {r} : FwBefore(r, o)
         IN <<first>> \o FwOrdered(rows \ {first})

\* objects.filter(enabled=True)
EnabledOnlyMutant(rows) == rows
EnabledOnly(rows) == {r \in rows : r.enabled}

(***************************************************************************)
(* NFTablesConfigManager: the generated configuration.  The base template  *)
(* is fixed; a configuration is what replaces its three placeholders, each *)
(* a sequence of lines, each line a sequence of words.                     *)
(***************************************************************************)
RECURSIVE Flatten(_)
Flatten(ss) == IF ss = <<>> THEN <<>> ELSE Head(ss) \o Flatten(Tail(ss))

\* if pf.protocol.lower() == 'both': ['tcp', 'udp'] else [pf.protocol.lower()]
Protocols(pf) == IF pf.protocol = "both" THEN <<"tcp", "udp">> ELSE <<pf.protocol>>

ForwardLines(pf) ==
    <<  <<"# Port forward", PortStr(pf.external_port), "->", pf.internal_ip,
          PortStr(pf.internal_port)>> >>
    \o [i \in 1..Len(Protocols(pf)) |->
          <<"ip", "daddr", pf.internal_ip, Protocols(pf)[i], "dport",
            PortStr(pf.internal_port), "accept">>]

GeneratePortForwardRules(pfs) ==
    LET rows == PfOrdered(EnabledOnly(pfs))
        rules == Flatten([i \in 1..Len(rows) |-> ForwardLines(rows[i])])
    IN IF rules # <<>> THEN rules ELSE << <<"# No port forwarding rules">> >>

DnatLines(pf) ==
    <<  <<"# DNAT for port", PortStr(pf.external_port), "->", pf.internal_ip,
          PortStr(pf.internal_port)>> >>
    \o [i \in 1..Len(Protocols(pf)) |->
          <<Protocols(pf)[i], "dport", PortStr(pf.external_port), "dnat", "to",
            pf.internal_ip, PortStr(pf.internal_port)>>]

GenerateDnatRules(pfs) ==
    LET rows == PfOrdered(EnabledOnly(pfs))
        rules == Flatten([i \in 1..Len(rows) |-> DnatLines(rows[i])])
    IN IF rules # <<>> THEN rules ELSE << <<"# No DNAT rules">> >>

PortParts(rule) ==
    (IF rule.source_port # NoPort
        THEN <<"sport", PortStr(rule.source_port)>> ELSE <<>>)
    \o (IF rule.destination_port # NoPort
        THEN <<"dport", PortStr(rule.destination_port)>> ELSE <<>>)

BuildNftablesRuleFromModel(rule) ==
    (IF rule.source_ip # NoIp THEN <<"ip", "saddr", rule.source_ip>> ELSE <<>>)
    \o (IF rule.destination_ip # NoIp
        THEN <<"ip", "daddr", rule.destination_ip>> ELSE <<>>)
    \o (IF rule.protocol # "" /\ rule.protocol # "all"
        THEN IF rule.protocol \in {"tcp", "udp"}
             THEN <<rule.protocol>> \o PortParts(rule)
             ELSE <<rule.protocol>>
        ELSE IF rule.source_port # NoPort \/ rule.destination_port # NoPort
             THEN <<"tcp">> \o PortParts(rule)
             ELSE <<>>)
    \o <<rule.action>>

GenerateFirewallRules(fws) ==
    LET rows == FwOrdered(EnabledOnly(fws))
        rules == Flatten([i \in 1..Len(rows) |->
                   << <<"#", rows[i].name>>, BuildNftablesRuleFromModel(rows[i]) >>])
    IN IF rules # <<>> THEN rules ELSE << <<"# No custom firewall rules">> >>

GenerateConfig(pfs, fws) ==
    [forward |-> GeneratePortForwardRules(pfs),
     dnat |-> GenerateDnatRules(pfs),
     firewall |-> GenerateFirewallRules(fws)]

(***************************************************************************)
(* The nftables workflow: state.                                           *)
(***************************************************************************)
VARIABLES
    pfRows,       \* the PortForward table
    fwRows,       \* the NFTableRule table
    configFile,   \* /etc/nftables/nftables.conf: NoFile or a configuration
    backupFile,   \* /etc/nftables/nftables.conf.backup
    live,         \* the kernel's ruleset: what nft -f loaded last, and the
                  \* rules added one by one since
    pc,           \* where each worker stands
    req,          \* the request each worker serves
    newConfig,    \* apply_network_changes' local new_config
    startConfig,  \* the configuration file as the apply_network_changes
                  \* a command is running found it
    pending,      \* the nft 'add rule' commands the view still has to run
    applyResult,  \* how the worker's last apply_network_changes ended
    nChanges,     \* saves and deletes so far
    nRuns,        \* runs of apply_network_changes the signals started
    nFailures,    \* subprocesses that failed so far
    cmdOut        \* what each process's last apply_network_config printed

nftVars == <<pfRows, fwRows, configFile, backupFile, live, pc, req, newConfig,
             startConfig,
             pending, applyResult, nChanges, nRuns, nFailures, cmdOut>>

\* how a subprocess.run call ends: exit status 0, a non-zero exit status, or
\* the command cannot be executed (OSError)
Outcomes == {"ok", "nonzero", "oserror"}

NoReq == [kind |-> "none", op |-> "none"]
NoCmdOut ==
    [summary |-> "none", report |-> "none", message |-> "none",
     dry_run |-> FALSE]

NftInit ==
    /\ pfRows = {}
    /\ fwRows = {}
    /\ configFile \in {NoFile, GenerateConfig({}, {})}
    /\ backupFile = NoFile
    /\ live = [loaded |-> configFile, extra |-> <<>>]
    /\ pc = [p \in Procs |-> "idle"]
    /\ req = [p \in Procs |-> NoReq]
    /\ newConfig = [p \in Procs |-> NoFile]
    /\ startConfig = [p \in Procs |-> NoFile]
    /\ pending = [p \in Procs |-> <<>>]
    /\ applyResult = [p \in Procs |-> "none"]
    /\ nChanges = 0
    /\ nRuns = 0
    /\ nFailures = 0
    /\ cmdOut = [p \in Procs |-> NoCmdOut]

\* a request goes to the first worker that is free
Dispatched(p) == pc[p] = "idle" /\ (p = "w1" \/ pc["w1"] # "idle")

\* the primary key the table's sequence hands out next: only the order of the
\* keys matters
NextPk == nChanges + 1

(***************************************************************************)
(* The signal receivers.  post_save and post_delete of both models each    *)
(* have a receiver, and each receiver calls apply_network_changes.         *)
(***************************************************************************)
ReceiverConnectedMutant(op) == op # "delete"
ReceiverConnected(op) == op \in {"create", "update", "delete"}

\* the save or delete returned to its caller: a view goes on with its own nft
\* commands, everything else is done
AfterSignal(p, cmds) == IF cmds # <<>> THEN "view_apply" ELSE "idle"

\* the request a worker serves, dropped when the worker is idle again
ReqAt(p, at, r) == [req EXCEPT ![p] = IF at = "idle" THEN NoReq ELSE r]

\* Model.save() / Model.delete() sends the signal before it returns
SendSignal(p, kind, op, cmds) ==
    /\ req' = ReqAt(p, IF ReceiverConnected(op) THEN "backup" ELSE AfterSignal(p, cmds),
                    [kind |-> kind, op |-> op])
    /\ cmdOut' = [cmdOut EXCEPT ![p] = NoCmdOut]
    /\ pending' = [pending EXCEPT ![p] = cmds]
    /\ nChanges' = nChanges + 1
    /\ UNCHANGED startConfig
    /\ IF ReceiverConnected(op)
       THEN /\ pc' = [pc EXCEPT ![p] = "backup"]
            /\ applyResult' = [applyResult EXCEPT ![p] = "running"]
            /\ nRuns' = nRuns + 1
       ELSE /\ pc' = [pc EXCEPT ![p] = AfterSignal(p, cmds)]
            /\ UNCHANGED <<applyResult, nRuns>>

\* create_port_forward_rule's two 'nft add rule' commands
PortForwardCommands(pf) ==
    <<  [table |-> "ip nat", chain |-> "prerouting",
         rule |-> <<pf.protocol, "dport", PortStr(pf.external_port), "dnat",
                    "to", pf.internal_ip, PortStr(pf.internal_port)>>],
        [table |-> "ip filter", chain |-> "forward",
         rule |-> <<"ip", "daddr", pf.internal_ip, pf.protocol, "dport",
                    PortStr(pf.internal_port), "accept">>] >>

\* create_nftables_rule's 'nft add rule' command
NftablesRuleCommands(r) ==
    <<  [table |-> "ip filter",
         chain |-> IF r.source_ip # NoIp /\ r.destination_ip = NoIp THEN "input"
                   ELSE IF r.destination_ip # NoIp /\ r.source_ip = NoIp
                        THEN "forward" ELSE "input",
         rule |-> (IF r.protocol # "all" THEN <<r.protocol>> ELSE <<>>)
                  \o (IF r.source_ip # NoIp
                      THEN <<"ip", "saddr", r.source_ip>> ELSE <<>>)
                  \o (IF r.source_port # NoPort /\ r.protocol \in {"tcp", "udp"}
                      THEN <<"sport", PortStr(r.source_port)>> ELSE <<>>)
                  \o (IF r.destination_ip # NoIp
                      THEN <<"ip", "daddr", r.destination_ip>> ELSE <<>>)
                  \o (IF r.destination_port # NoPort
                         /\ r.protocol \in {"tcp", "udp"}
                      THEN <<"dport", PortStr(r.destination_port)>> ELSE <<>>)
                  \o <<r.action>>] >>

(***************************************************************************)
(* Requests that change the database.                                      *)
(***************************************************************************)
\* views.add_port_forward, a POST with a valid form
AddPortForward(p, ext, ip, port, proto, en) ==
    LET row == PortForward(NextPk, ext, ip, port, proto, en) IN
    /\ Dispatched(p)
    /\ nChanges < MaxChanges
    /\ UniqueTogether(pfRows, ext, proto)
    /\ pfRows' = pfRows \cup {row}
    /\ SendSignal(p, "add_port_forward", "create",
                  IF en THEN PortForwardCommands(row) ELSE <<>>)
    /\ UNCHANGED <<fwRows, configFile, backupFile, live, newConfig, nFailures>>

\* views.add_rule, a POST with a valid form
AddRule(p, t, en) ==
    LET row == NFTableRule(NextPk, t, en) IN
    /\ Dispatched(p)
    /\ nChanges < MaxChanges
    /\ fwRows' = fwRows \cup {row}
    /\ SendSignal(p, "add_rule", "create",
                  IF en THEN NftablesRuleCommands(row) ELSE <<>>)
    /\ UNCHANGED <<pfRows, configFile, backupFile, live, newConfig, nFailures>>

\* a save of an existing row (here: its enabled flag flipped)
SaveExisting(p, row) ==
    LET new == [row EXCEPT !.enabled = ~row.enabled] IN
    /\ Dispatched(p)
    /\ nChanges < MaxChanges
    /\ \/ /\ row \in pfRows
          /\ pfRows' = (pfRows \ {row}) \cup {new}
          /\ UNCHANGED fwRows
       \/ /\ row \in fwRows
          /\ fwRows' = (fwRows \ {row}) \cup {new}
          /\ UNCHANGED pfRows
    /\ SendSignal(p, "orm", "update", <<>>)
    /\ UNCHANGED <<configFile, backupFile, live, newConfig, nFailures>>

\* a delete of a row
DeleteRow(p, row) ==
    /\ Dispatched(p)
    /\ nChanges < MaxChanges
    /\ \/ /\ row \in pfRows
          /\ pfRows' = pfRows \ {row}
          /\ UNCHANGED fwRows
       \/ /\ row \in fwRows
          /\ fwRows' = fwRows \ {row}
          /\ UNCHANGED pfRows
    /\ SendSignal(p, "orm", "delete", <<>>)
    /\ UNCHANGED <<configFile, backupFile, live, newConfig, nFailures>>

(***************************************************************************)
(* NFTablesConfigManager.apply_network_changes, one step per subprocess.   *)
(***************************************************************************)
\* which failures of its subprocess.run(..., check=True) each method catches
BackupCatches(o) == o = "nonzero"     \* except subprocess.CalledProcessError
WriteCatches(o) == TRUE               \* ... and except Exception
ApplyCatches(o) == TRUE               \* ... and except Exception
RollbackCatches(o) == o = "nonzero"   \* except subprocess.CalledProcessError

\* the receivers' 'except Exception' around apply_network_changes: which of
\* its results they turn into a log line and a normal return
ReceiverCatchesMutant(res) == res # "raised"
ReceiverCatches(res) == TRUE

\* apply_network_changes is over: it returned (True, ..) ("ok"), returned
\* (False, ..) ("failed") or let an exception through ("raised").  A signal
\* receiver logs either failure and returns; the command prints it.
Return(p, res, msg) ==
    LET at == IF req[p].kind # "command" /\ ~ReceiverCatches(res)
              THEN "idle"     \* save() / delete() raises, the request ends
              ELSE AfterSignal(p, pending[p])
    IN
    /\ applyResult' = [applyResult EXCEPT ![p] = res]
    /\ newConfig' = [newConfig EXCEPT ![p] = NoFile]
    /\ startConfig' = [startConfig EXCEPT ![p] = NoFile]
    /\ pc' = [pc EXCEPT ![p] = at]
    /\ req' = ReqAt(p, at, req[p])
    /\ cmdOut' = IF req[p].kind = "command"
                 THEN [cmdOut EXCEPT ![p].report = res,
                                     ![p].message = IF res = "raised"
                                                    THEN "exception" ELSE msg]
                 ELSE cmdOut

\* the environment lets at most MaxFailures subprocesses fail
Subprocess(outs) ==
    IF \A i \in 1..Len(outs) : outs[i] = "ok"
    THEN UNCHANGED nFailures
    ELSE /\ nFailures < MaxFailures
         /\ nFailures' = nFailures + 1

\* apply_network_changes goes on with its next step
Goto(p, at) ==
    /\ pc' = [pc EXCEPT ![p] = at]
    /\ UNCHANGED <<req, applyResult, cmdOut, startConfig>>

\* backup_current_config
BackupCurrentConfig(p, o) ==
    /\ pc[p] = "backup"
    /\ Subprocess(<<o>>)
    /\ IF configFile = NoFile
       THEN /\ o = "ok"
            /\ Return(p, "failed", "backup")
            /\ UNCHANGED backupFile
       ELSE IF o = "ok"
       THEN /\ backupFile' = configFile
            /\ Goto(p, "generate")
            /\ UNCHANGED newConfig
       ELSE /\ Return(p, IF BackupCatches(o) THEN "failed" ELSE "raised", "backup")
            /\ UNCHANGED backupFile
    /\ UNCHANGED <<pfRows, fwRows, configFile, live, pending, nChanges, nRuns>>

\* what generate_config builds its result from
ConfigSourceMutant(p) == GenerateConfig({}, fwRows)
ConfigSource(p) == GenerateConfig(pfRows, fwRows)

\* new_config = self.generate_config(); a database error is caught
GenerateStep(p, o) ==
    /\ pc[p] = "generate"
    /\ o \in {"ok", "nonzero"}
    /\ Subprocess(<<o>>)
    /\ IF o = "ok"
       THEN /\ newConfig' = [newConfig EXCEPT ![p] = ConfigSource(p)]
            /\ Goto(p, "write")
       ELSE Return(p, "failed", "generation")
    /\ UNCHANGED <<pfRows, fwRows, configFile, backupFile, live, pending,
                   nChanges, nRuns>>

\* the message write_config returns with when it fails
WriteMessage(v, o) ==
    CASE v = "nonzero" -> "validation"   \* Configuration validation failed
      [] v = "oserror" -> "unexpected"   \* Unexpected error
      [] o = "nonzero" -> "write"        \* Failed to write configuration
      [] OTHER -> "unexpected"

\* whether write_config replaces the configuration file: the cp runs only
\* past the test of nft -c's returncode, and replaces the file or nothing
ReplacesFileMutant(v, o) == o = "ok"
ReplacesFile(v, o) == v = "ok" /\ o = "ok"

\* write_config: the temporary file and nft -c -f of it (v), then cp of it
\* onto the configuration file (o); only the cp touches anything shared
WriteConfig(p, v, o) ==
    /\ pc[p] = "write"
    /\ Subprocess(<<v, o>>)
    /\ configFile' = IF ReplacesFile(v, o) THEN newConfig[p] ELSE configFile
    /\ IF v = "ok" /\ o = "ok"
       THEN /\ Goto(p, "apply")
            /\ UNCHANGED newConfig
       ELSE /\ v = "ok" \/ o = "ok"
            /\ Return(p, IF WriteCatches(IF v = "ok" THEN o ELSE v)
                         THEN "failed" ELSE "raised",
                      WriteMessage(v, o))
    /\ UNCHANGED <<pfRows, fwRows, backupFile, live, pending, nChanges, nRuns>>

\* nft -f of the configuration file: the file starts with 'flush ruleset', and
\* nft replaces the whole ruleset or nothing
NftLoad == [loaded |-> configFile, extra |-> <<>>]

\* apply_config: nft -f of the configuration file (o), then systemctl restart
\* nftables (r), whose non-zero exit only warns; a failure of apply_config
\* makes apply_network_changes roll back
ApplyConfig(p, o, r) ==
    /\ pc[p] = "apply"
    /\ Subprocess(<<o, r>>)
    /\ IF o = "ok"
       THEN /\ live' = NftLoad
            /\ IF r \in {"ok", "nonzero"}
               THEN Return(p, "ok", "updated")
               ELSE /\ ApplyCatches(r)
                    /\ Goto(p, "rollback_cp")
                    /\ UNCHANGED newConfig
       ELSE /\ r = "ok"
            /\ ApplyCatches(o)
            /\ Goto(p, "rollback_cp")
            /\ UNCHANGED <<live, newConfig>>
    /\ UNCHANGED <<pfRows, fwRows, configFile, backupFile, pending,
                   nChanges, nRuns>>

\* rollback_config: cp of the backup onto the configuration file
RollbackCopy(p, o) ==
    /\ pc[p] = "rollback_cp"
    /\ Subprocess(<<o>>)
    /\ IF backupFile = NoFile
       THEN /\ o = "ok"
            /\ Return(p, "failed", "apply")
            /\ UNCHANGED configFile
       ELSE IF o = "ok"
       THEN /\ configFile' = backupFile
            /\ Goto(p, "rollback_nft")
            /\ UNCHANGED newConfig
       ELSE /\ Return(p, IF RollbackCatches(o) THEN "failed" ELSE "raised", "apply")
            /\ UNCHANGED configFile
    /\ UNCHANGED <<pfRows, fwRows, backupFile, live, pending, nChanges, nRuns>>

\* rollback_config: nft -f of the restored file; its result is dropped by
\* apply_network_changes, which returns (False, message)
RollbackLoad(p, o) ==
    /\ pc[p] = "rollback_nft"
    /\ Subprocess(<<o>>)
    /\ live' = IF o = "ok" THEN NftLoad ELSE live
    /\ Return(p, IF o = "ok" \/ RollbackCatches(o) THEN "failed" ELSE "raised",
              "apply")
    /\ UNCHANGED <<pfRows, fwRows, configFile, backupFile, pending,
                   nChanges, nRuns>>

(***************************************************************************)
(* The view's own nft commands, after the save returned:                   *)
(* create_port_forward_rule / create_nftables_rule through run_command,    *)
(* which reports a failure in its result; the first failed 'add rule' ends *)
(* the function.  The first k commands succeed.                            *)
(***************************************************************************)
ViewApply(p, k) ==
    /\ pc[p] = "view_apply"
    /\ k \in 0..Len(pending[p])
    /\ Subprocess(<<IF k = Len(pending[p]) THEN "ok" ELSE "nonzero">>)
    /\ live' = [live EXCEPT !.extra = @ \o SubSeq(pending[p], 1, k)]
    /\ pending' = [pending EXCEPT ![p] = <<>>]
    /\ pc' = [pc EXCEPT ![p] = "idle"]
    /\ req' = ReqAt(p, "idle", req[p])
    /\ UNCHANGED <<pfRows, fwRows, configFile, backupFile, newConfig,
                   startConfig, applyResult, nChanges, nRuns, cmdOut>>

(***************************************************************************)
(* manage.py apply_network_config [--dry-run]                              *)
(***************************************************************************)
\* the keys of one entry of get_current_config_summary()['firewall_rules']
SummaryRuleKeys ==
    {"name", "protocol", "source_ip", "source_port", "destination_ip",
     "destination_port", "action", "enabled"}

\* the keys handle reads of each such entry while printing the summary
PrintedRuleKeys == {"name", "rule", "enabled"}

\* if options['dry_run']: ... else: apply_network_changes()
RunsApplyMutant(dry_run) == TRUE
RunsApply(dry_run) == ~dry_run

\* Command.handle up to the call of apply_network_changes
CommandHandle(p, dry_run) ==
    LET keyError == fwRows # {} /\ ~(PrintedRuleKeys \subseteq SummaryRuleKeys)
        out(summary, report) ==
            [cmdOut EXCEPT ![p] = [summary |-> summary, report |-> report,
                                   message |-> "none", dry_run |-> dry_run]]
    IN
    /\ Dispatched(p)
    /\ req' = ReqAt(p, IF keyError \/ ~RunsApply(dry_run) THEN "idle" ELSE "backup",
                    [kind |-> "command", op |-> "none"])
    /\ IF keyError
       THEN \* KeyError while printing the first firewall rule
            /\ cmdOut' = out("keyerror", "none")
            /\ applyResult' = [applyResult EXCEPT ![p] = "none"]
            /\ UNCHANGED <<pc, startConfig>>
       ELSE IF ~RunsApply(dry_run)
       THEN \* generate_config() and print it
            /\ cmdOut' = out("printed", "dry_run")
            /\ applyResult' = [applyResult EXCEPT ![p] = "none"]
            /\ UNCHANGED <<pc, startConfig>>
       ELSE /\ cmdOut' = out("printed", "none")
            /\ pc' = [pc EXCEPT ![p] = "backup"]
            /\ startConfig' = [startConfig EXCEPT ![p] = configFile]
            /\ applyResult' = [applyResult EXCEPT ![p] = "running"]
    /\ UNCHANGED <<pfRows, fwRows, configFile, backupFile, live, newConfig,
                   pending, nChanges, nRuns, nFailures>>

(***************************************************************************)
(* The apply_network_config command on a database of any contents.         *)
(***************************************************************************)
\* rows in each table when the command starts
MaxRows == 2

PfCandidates ==
    {PortForward(k, ext, ip, port, proto, en) :
        k \in 1..MaxRows, ext \in PfExternalPorts, ip \in PfInternalIps,
        port \in PfInternalPorts, proto \in PfProtocols, en \in BOOLEAN}

FwCandidates ==
    {NFTableRule(k, t, en) : k \in 1..MaxRows, t \in FwTemplates, en \in BOOLEAN}

\* tables the requests can have built: distinct primary keys, and
\* (external_port, protocol) unique among the port forwards
PfTables ==
    {rows \in SUBSET PfCandidates :
        /\ Cardinality(rows) <= MaxRows
        /\ \A a, b \in rows : a # b => a.pk # b.pk
        /\ \A a \in rows : UniqueTogether(rows \ {a}, a.external_port, a.protocol)}

FwTables ==
    {rows \in SUBSET FwCandidates :
        /\ Cardinality(rows) <= MaxRows
        /\ \A a, b \in rows : a # b => a.pk # b.pk}

CmdNftInit ==
    /\ pfRows \in PfTables
    /\ fwRows \in FwTables
    /\ configFile \in {NoFile, GenerateConfig({}, {})}
    /\ backupFile = NoFile
    /\ live = [loaded |-> configFile, extra |-> <<>>]
    /\ pc = [p \in Procs |-> "idle"]
    /\ req = [p \in Procs |-> NoReq]
    /\ newConfig = [p \in Procs |-> NoFile]
    /\ startConfig = [p \in Procs |-> NoFile]
    /\ pending = [p \in Procs |-> <<>>]
    /\ applyResult = [p \in Procs |-> "none"]
    /\ nChanges = 0
    /\ nRuns = 0
    /\ nFailures = 0
    /\ cmdOut = [p \in Procs |-> NoCmdOut]

(***************************************************************************)
(* Monitoring: state.                                                      *)
(***************************************************************************)
VARIABLES
    tstate,        \* each Celery task's run: pending, running, retry (a retry
                   \* is scheduled), success, failure
    retries,       \* self.request.retries of the run
    countdown,     \* the countdown the scheduled retry was given
    cyclePos,      \* collect_all_metrics: 0 not running, i the i-th step is
                   \* next, CycleDone it returned
    cycleRan,      \* the steps the cycle called
    cycleErr,      \* the first step of the cycle that raised, or "none"
    metricLatest,  \* per source, the value of the newest cpu MetricData
    alerts,        \* the Alert rows
    instances,     \* the AlertInstance rows
    now            \* the clock, in seconds

monVars == <<tstate, retries, countdown, cyclePos, cycleRan, cycleErr,
             metricLatest, alerts, instances, now>>

\* seconds the clock advances by, and where the model stops it
TickSeconds == 30
MaxTime == 90

\* tasks the beat schedule has sent so far
MaxTasks == 2

Tasks == {"collect_system_metrics", "collect_logs_task", "cleanup_old_data",
          "check_system_health"}

\* self.retry(countdown=.., max_retries=..) of each task
RetryPolicyMutant(t) ==
    IF t \in {"collect_system_metrics", "collect_logs_task"}
    THEN [countdown |-> 60, max_retries |-> 3]
    ELSE [countdown |-> 300, max_retries |-> 3]
RetryPolicy(t) ==
    IF t \in {"collect_system_metrics", "collect_logs_task"}
    THEN [countdown |-> 60, max_retries |-> 3]
    ELSE [countdown |-> 300, max_retries |-> 2]

\* collect_all_metrics calls these in this order
CycleSteps ==
    <<"cpu", "memory", "disk", "disk_io", "network", "load", "process",
      "connection", "temperature", "service_status", "check_alerts">>

CycleDone == Len(CycleSteps) + 1

\* each step's body is one try ... except Exception that logs
StepCatchesMutant(c) == c # "disk"
StepCatches(c) == c \in {CycleSteps[i] : i \in 1..Len(CycleSteps)}

NoValue == -1
NoTime == -1
MetricSources == {"system", ""}
MetricValues == {10, 50, 90}

\* an Alert row on the cpu metric, never checked yet
AlertRow(en, op, ci, src) ==
    [id |-> 1, enabled |-> en, comparison_operator |-> op,
     threshold_value |-> 50, check_interval |-> ci, source |-> src,
     notification_enabled |-> TRUE, has_recipients |-> TRUE,
     last_checked |-> NoTime, last_triggered |-> NoTime]

\* the Alert rows the model starts from: an alert on the metric the cycle
\* collects, one with an operator evaluate_alert_condition does not know
\* (the column takes any string), one on a source no metric has
AlertConfigs ==
    {AlertRow(en, op, ci, "system") :
        en \in BOOLEAN, op \in {">", "<="}, ci \in {45, 60}}
    \cup {AlertRow(TRUE, "=>", 60, "system"), AlertRow(TRUE, ">", 60, "")}

MonInit(alertSets) ==
    /\ tstate = [t \in Tasks |-> "pending"]
    /\ retries = [t \in Tasks |-> 0]
    /\ countdown = [t \in Tasks |-> 0]
    /\ cyclePos = 0
    /\ cycleRan = {}
    /\ cycleErr = "none"
    /\ metricLatest = [s \in MetricSources |-> NoValue]
    /\ alerts \in alertSets
    /\ instances = {}
    /\ now = 0

(***************************************************************************)
(* The Celery tasks.                                                       *)
(***************************************************************************)
IsMetrics(t) == t = "collect_system_metrics"

\* the beat schedule sends the task; a run of collect_system_metrics calls
\* collect_all_metrics
TaskStart(t) ==
    /\ tstate[t] \in {"pending", "success", "failure"}
    /\ Cardinality({u \in Tasks : tstate[u] # "pending"} \cup {t}) <= MaxTasks
    /\ tstate' = [tstate EXCEPT ![t] = "running"]
    /\ retries' = [retries EXCEPT ![t] = 0]
    /\ countdown' = [countdown EXCEPT ![t] = 0]
    /\ IF IsMetrics(t)
       THEN cyclePos' = 1 /\ cycleRan' = {} /\ cycleErr' = "none"
       ELSE UNCHANGED <<cyclePos, cycleRan, cycleErr>>
    /\ UNCHANGED <<metricLatest, alerts, instances, now>>

\* the scheduled retry is delivered once its countdown is over
TaskRetryRun(t) ==
    /\ tstate[t] = "retry"
    /\ tstate' = [tstate EXCEPT ![t] = "running"]
    /\ IF IsMetrics(t)
       THEN cyclePos' = 1 /\ cycleRan' = {} /\ cycleErr' = "none"
       ELSE UNCHANGED <<cyclePos, cycleRan, cycleErr>>
    /\ UNCHANGED <<retries, countdown, metricLatest, alerts, instances, now>>

\* the body ran to its return statement
TaskReturn(t) ==
    /\ tstate[t] = "running"
    /\ IsMetrics(t) => cyclePos = CycleDone
    /\ tstate' = [tstate EXCEPT ![t] = "success"]
    /\ cyclePos' = IF IsMetrics(t) THEN 0 ELSE cyclePos
    /\ UNCHANGED <<retries, countdown, cycleRan, cycleErr, metricLatest,
                   alerts, instances, now>>

\* an exception reached the task's except clause (for collect_system_metrics:
\* one raised outside collect_all_metrics), which calls self.retry: Celery
\* schedules the run again while the retries are below max_retries, and fails
\* the task otherwise
TaskRaise(t) ==
    /\ tstate[t] = "running"
    /\ IsMetrics(t) => cyclePos \in {1, CycleDone}
    /\ IF retries[t] < RetryPolicy(t).max_retries
       THEN /\ tstate' = [tstate EXCEPT ![t] = "retry"]
            /\ retries' = [retries EXCEPT ![t] = @ + 1]
            /\ countdown' = [countdown EXCEPT ![t] = RetryPolicy(t).countdown]
       ELSE /\ tstate' = [tstate EXCEPT ![t] = "failure"]
            /\ UNCHANGED <<retries, countdown>>
    /\ cyclePos' = IF IsMetrics(t) THEN 0 ELSE cyclePos
    /\ UNCHANGED <<cycleRan, cycleErr, metricLatest, alerts, instances, now>>

(***************************************************************************)
(* SystemMonitor.collect_all_metrics, one step per call it makes.          *)
(***************************************************************************)
\* the collect_metrics command calls monitor.collect_all_metrics() itself
CommandCollect ==
    /\ cyclePos \in {0, CycleDone}
    /\ tstate["collect_system_metrics"] # "running"
    /\ cyclePos' = 1
    /\ cycleRan' = {}
    /\ cycleErr' = "none"
    /\ UNCHANGED <<tstate, retries, countdown, metricLatest, alerts, instances,
                   now>>

\* step c raised: either its own except clause logs it and the cycle goes on,
\* or collect_all_metrics' except clause logs it and the cycle is over
AfterError(c, pos) == IF StepCatches(c) THEN pos + 1 ELSE CycleDone

\* collect_cpu_metrics ... update_service_status; the model keeps the cpu
\* metric of source 'system', which collect_cpu_metrics creates first
CollectStep(err, v) ==
    LET c == CycleSteps[cyclePos] IN
    /\ cyclePos \in 1..(Len(CycleSteps) - 1)
    /\ cycleRan' = cycleRan \cup {c}
    /\ IF err
       THEN /\ cyclePos' = AfterError(c, cyclePos)
            /\ cycleErr' = IF cycleErr = "none" THEN c ELSE cycleErr
            /\ UNCHANGED metricLatest
       ELSE /\ cyclePos' = cyclePos + 1
            /\ metricLatest' = IF c = "cpu"
                               THEN [metricLatest EXCEPT !["system"] = v]
                               ELSE metricLatest
            /\ UNCHANGED cycleErr
    /\ UNCHANGED <<tstate, retries, countdown, alerts, instances, now>>

\* evaluate_alert_condition
EvaluateAlertConditionMutant(current_value, operator, threshold) ==
    CASE operator = ">" -> current_value > threshold
      [] operator = "<" -> current_value < threshold
      [] operator = ">=" -> current_value >= threshold
      [] operator = "<=" -> current_value <= threshold
      [] operator = "==" -> current_value = threshold
      [] operator = "!=" -> current_value # threshold
      [] OTHER -> TRUE
EvaluateAlertCondition(current_value, operator, threshold) ==
    CASE operator = ">" -> current_value > threshold
      [] operator = "<" -> current_value < threshold
      [] operator = ">=" -> current_value >= threshold
      [] operator = "<=" -> current_value <= threshold
      [] operator = "==" -> current_value = threshold
      [] operator = "!=" -> current_value # threshold
      [] OTHER -> FALSE

\* MetricData.objects.filter(metric_type=.., source=alert.source or '').first()
LatestMetric(a) == metricLatest[IF a.source # "" THEN a.source ELSE ""]

\* timedelta(minutes=alert.check_interval // 60), in seconds
SpamWindow(a) == 60 * (a.check_interval \div 60)

RecentTrigger(a) ==
    \E i \in instances : i.alert = a.id /\ i.triggered_at >= now - SpamWindow(a)

ShouldCreate(a) ==
    /\ LatestMetric(a) # NoValue
    /\ EvaluateAlertCondition(LatestMetric(a), a.comparison_operator,
                              a.threshold_value)
    /\ ~RecentTrigger(a)

\* AlertInstance.objects.create(..) and send_notification()
NewInstance(a, mailOk) ==
    [alert |-> a.id, triggered_at |-> now, resolved_at |-> NoTime,
     value_at_trigger |-> LatestMetric(a), source |-> a.source,
     notification_sent |-> a.notification_enabled /\ a.has_recipients /\ mailOk]

\* what one pass of the loop does to the alert row
CheckedAlert(a) ==
    IF LatestMetric(a) = NoValue THEN a
    ELSE [a EXCEPT !.last_checked = now,
                   !.last_triggered = IF ShouldCreate(a) THEN now ELSE @]

\* check_alerts: every enabled alert against its latest metric
CheckAlertsStep(err, alertErr, mailOk) ==
    LET c == CycleSteps[cyclePos]
        checked == {a \in alerts : a.enabled /\ ~alertErr}
    IN
    /\ cyclePos = Len(CycleSteps)
    /\ cycleRan' = cycleRan \cup {c}
    /\ IF err
       THEN /\ ~alertErr /\ mailOk
            /\ cyclePos' = AfterError(c, cyclePos)
            /\ cycleErr' = IF cycleErr = "none" THEN c ELSE cycleErr
            /\ UNCHANGED <<alerts, instances>>
       ELSE /\ cyclePos' = cyclePos + 1
            /\ cycleErr' = IF alertErr /\ cycleErr = "none" THEN c ELSE cycleErr
            /\ instances' = instances \cup
                   {NewInstance(a, mailOk) : a \in {b \in checked : ShouldCreate(b)}}
            /\ alerts' = (alerts \ checked) \cup {CheckedAlert(a) : a \in checked}
    /\ UNCHANGED <<tstate, retries, countdown, metricLatest, now>>

\* time passes between two cycles
Tick ==
    /\ cyclePos \in {0, CycleDone}
    /\ now < MaxTime
    /\ now' = now + TickSeconds
    /\ UNCHANGED <<tstate, retries, countdown, cyclePos, cycleRan, cycleErr,
                   metricLatest, alerts, instances>>

(***************************************************************************)
(* The run_command helpers of network.utils and dashboard.utils.           *)
(***************************************************************************)
VARIABLES
    rcPhase,   \* idle, running (subprocess.run was called), returned, raised
    rcCall,    \* the helper called, its arguments, and how subprocess.run ends
    rcResult   \* the dictionary returned

rcVars == <<rcPhase, rcCall, rcResult>>

\* exit statuses the commands end with: 0..MaxReturnCode
MaxReturnCode == 2

NoDict == [none |-> TRUE]
NoCall == [helper |-> "none"]

\* how subprocess.run can end
RunOutcomes ==
    [kind : {"exit"}, returncode : 0..MaxReturnCode, stdout : {"", " out "},
     stderr : {"", " err "}]
    \cup {[kind |-> "timeout", returncode |-> 0, stdout |-> "", stderr |-> ""],
          [kind |-> "oserror", returncode |-> 0, stdout |-> "", stderr |-> ""]}

\* str.strip()
Strip(text) ==
    CASE text = " out " -> "out"
      [] text = " err " -> "err"
      [] OTHER -> text

\* network.utils.run_command: subprocess.run(..., timeout=30, check=True)
NetworkRunCommandMutant(check_output, out) ==
    IF out.kind = "exit"
    THEN [raised |-> FALSE,
          dict |-> [success |-> TRUE, returncode |-> out.returncode]]
    ELSE [raised |-> FALSE, dict |-> [success |-> FALSE, error |-> "error"]]
NetworkRunCommand(check_output, out) ==
    CASE out.kind = "exit" /\ out.returncode = 0 ->
            [raised |-> FALSE,
             dict |-> IF check_output
                      THEN [success |-> TRUE, stdout |-> Strip(out.stdout),
                            stderr |-> Strip(out.stderr),
                            returncode |-> out.returncode]
                      ELSE [success |-> TRUE, returncode |-> out.returncode]]
      [] out.kind = "exit" /\ out.returncode # 0 ->
            \* check=True raises CalledProcessError; without capture_output
            \* its stdout and stderr are None
            [raised |-> FALSE,
             dict |-> [success |-> FALSE,
                       stdout |-> IF check_output THEN Strip(out.stdout) ELSE "",
                       stderr |-> IF check_output THEN Strip(out.stderr) ELSE "",
                       returncode |-> out.returncode,
                       error |-> "returned non-zero exit status"]]
      [] out.kind = "timeout" ->
            [raised |-> FALSE,
             dict |-> [success |-> FALSE, error |-> "Command timeout"]]
      [] OTHER ->
            [raised |-> FALSE, dict |-> [success |-> FALSE, error |-> "str(e)"]]

\* dashboard.utils.run_command: subprocess.run(..., timeout=30), no check
DashboardRunCommand(out) ==
    CASE out.kind = "exit" ->
            [raised |-> FALSE,
             dict |-> [success |-> (out.returncode = 0), stdout |-> out.stdout,
                       stderr |-> out.stderr, returncode |-> out.returncode]]
      [] out.kind = "timeout" ->
            [raised |-> FALSE,
             dict |-> [success |-> FALSE, error |-> "Command timed out"]]
      [] OTHER ->
            [raised |-> FALSE, dict |-> [success |-> FALSE, error |-> "str(e)"]]

RcInit ==
    /\ rcPhase = "idle"
    /\ rcCall = NoCall
    /\ rcResult = NoDict

\* a caller calls one of the helpers, and subprocess.run is under way
RcInvoke(helper, shell, check_output, out) ==
    /\ rcPhase \in {"idle", "returned", "raised"}
    /\ helper = "dashboard" => check_output
    /\ rcPhase' = "running"
    /\ rcCall' = [helper |-> helper, shell |-> shell,
                  check_output |-> check_output, out |-> out]
    /\ rcResult' = NoDict

\* subprocess.run ended, and the helper returns
RcComplete ==
    LET res == IF rcCall.helper = "network"
               THEN NetworkRunCommand(rcCall.check_output, rcCall.out)
               ELSE DashboardRunCommand(rcCall.out)
    IN
    /\ rcPhase = "running"
    /\ rcPhase' = IF res.raised THEN "raised" ELSE "returned"
    /\ rcResult' = IF res.raised THEN NoDict ELSE res.dict
    /\ UNCHANGED rcCall

(***************************************************************************)
(* manage.py collect_metrics [--once]                                      *)
(***************************************************************************)
VARIABLES
    collectRun   \* the run of the command: where handle stands, the --once
                 \* option it was given, the passes it completed

cmVars == <<collectRun>>

NoRun == [phase |-> "none", once |-> FALSE, passes |-> 0]

CmInit == collectRun = NoRun

\* handle starts: SystemMonitor(), then monitor.collect_all_metrics()
CollectHandle(once) ==
    /\ collectRun.phase \in {"none", "exited"}
    /\ collectRun' = [phase |-> "metrics", once |-> once, passes |-> 0]
    /\ CommandCollect

\* collect_all_metrics returned: collect_system_logs(), which logs its errors
CollectLogs ==
    /\ collectRun.phase = "metrics"
    /\ cyclePos = CycleDone
    /\ collectRun' = [collectRun EXCEPT !.phase = "logs"]
    /\ UNCHANGED monVars

\* monitor.cleanup_old_data(), which logs its errors
CollectCleanup ==
    /\ collectRun.phase = "logs"
    /\ collectRun' = [collectRun EXCEPT !.phase = "cleanup"]
    /\ UNCHANGED monVars

\* the end of handle: the pass is complete, and the command exits
CollectExit ==
    /\ collectRun.phase = "cleanup"
    /\ collectRun' = [collectRun EXCEPT !.phase = "exited", !.passes = @ + 1]
    /\ UNCHANGED monVars

(***************************************************************************)
(* Specifications.                                                         *)
(***************************************************************************)
vars == <<nftVars, monVars, rcVars, cmVars>>

NftFrame == UNCHANGED <<monVars, rcVars, cmVars>>
MonFrame == UNCHANGED <<nftVars, rcVars, cmVars>>
RcFrame == UNCHANGED <<nftVars, monVars, cmVars>>
CmFrame == UNCHANGED <<nftVars, rcVars>>

\* nothing configured, nothing running
NftQuiet == NftInit /\ configFile = NoFile
MonQuiet == MonInit({{}})

\* the nftables workflow: requests served concurrently by the workers
Init == NftInit /\ MonQuiet /\ RcInit /\ CmInit
Next ==
    \/ \E p \in Procs, ext \in PfExternalPorts, ip \in PfInternalIps,
          port \in PfInternalPorts, proto \in PfProtocols, en \in BOOLEAN :
          AddPortForward(p, ext, ip, port, proto, en) /\ NftFrame
    \/ \E p \in Procs, t \in FwTemplates, en \in BOOLEAN :
          AddRule(p, t, en) /\ NftFrame
    \/ \E p \in Procs, row \in pfRows \cup fwRows :
          SaveExisting(p, row) /\ NftFrame
    \/ \E p \in Procs, row \in pfRows \cup fwRows : DeleteRow(p, row) /\ NftFrame
    \/ \E p \in Procs, k \in 0..2 : ViewApply(p, k) /\ NftFrame
    \/ \E p \in Procs, o \in Outcomes : BackupCurrentConfig(p, o) /\ NftFrame
    \/ \E p \in Procs, o \in Outcomes : GenerateStep(p, o) /\ NftFrame
    \/ \E p \in Procs, v \in Outcomes, o \in Outcomes :
          WriteConfig(p, v, o) /\ NftFrame
    \/ \E p \in Procs, o \in Outcomes, r \in Outcomes :
          ApplyConfig(p, o, r) /\ NftFrame
    \/ \E p \in Procs, o \in Outcomes : RollbackCopy(p, o) /\ NftFrame
    \/ \E p \in Procs, o \in Outcomes : RollbackLoad(p, o) /\ NftFrame
Spec == Init /\ [][Next]_vars

\* the apply_network_config command, on a database of any contents
CommandInit == CmdNftInit /\ MonQuiet /\ RcInit /\ CmInit
CommandNext ==
    \/ \E p \in Procs, dry_run \in BOOLEAN : CommandHandle(p, dry_run) /\ NftFrame
    \/ \E p \in Procs, o \in Outcomes : BackupCurrentConfig(p, o) /\ NftFrame
    \/ \E p \in Procs, o \in Outcomes : GenerateStep(p, o) /\ NftFrame
    \/ \E p \in Procs, v \in Outcomes, o \in Outcomes :
          WriteConfig(p, v, o) /\ NftFrame
    \/ \E p \in Procs, o \in Outcomes, r \in Outcomes :
          ApplyConfig(p, o, r) /\ NftFrame
    \/ \E p \in Procs, o \in Outcomes : RollbackCopy(p, o) /\ NftFrame
    \/ \E p \in Procs, o \in Outcomes : RollbackLoad(p, o) /\ NftFrame
SpecCommand == CommandInit /\ [][CommandNext]_vars

\* the four Celery tasks, on a system with no alert configured
TasksInit == NftQuiet /\ MonQuiet /\ RcInit /\ CmInit
TasksNext ==
    \/ \E t \in Tasks : TaskStart(t) /\ MonFrame
    \/ \E t \in Tasks : TaskRetryRun(t) /\ MonFrame
    \/ \E t \in Tasks : TaskReturn(t) /\ MonFrame
    \/ \E t \in Tasks : TaskRaise(t) /\ MonFrame
    \/ \E err \in BOOLEAN, v \in MetricValues : CollectStep(err, v) /\ MonFrame
    \/ \E err \in BOOLEAN, alertErr \in BOOLEAN, mailOk \in BOOLEAN :
          CheckAlertsStep(err, alertErr, mailOk) /\ MonFrame
SpecTasks == TasksInit /\ [][TasksNext]_vars

\* the metric collection cycles and the alerts, over time
MonitorInit == NftQuiet /\ MonInit({{a} : a \in AlertConfigs}) /\ RcInit /\ CmInit
MonitorNext ==
    \/ CommandCollect /\ MonFrame
    \/ \E err \in BOOLEAN, v \in MetricValues : CollectStep(err, v) /\ MonFrame
    \/ \E err \in BOOLEAN, alertErr \in BOOLEAN, mailOk \in BOOLEAN :
          CheckAlertsStep(err, alertErr, mailOk) /\ MonFrame
    \/ Tick /\ MonFrame
SpecMonitor == MonitorInit /\ [][MonitorNext]_vars

\* the run_command helpers, over every call and every end of the subprocess
RunCommandInit == NftQuiet /\ MonQuiet /\ RcInit /\ CmInit
RunCommandNext ==
    \/ \E helper \in {"network", "dashboard"}, shell \in BOOLEAN,
          check_output \in BOOLEAN, out \in RunOutcomes :
          RcInvoke(helper, shell, check_output, out) /\ RcFrame
    \/ RcComplete /\ RcFrame
SpecRunCommand == RunCommandInit /\ [][RunCommandNext]_vars

\* the collect_metrics command, run again and again
CollectInit == NftQuiet /\ MonQuiet /\ RcInit /\ CmInit
CollectNext ==
    \/ \E once \in BOOLEAN : CollectHandle(once) /\ CmFrame
    \/ \E err \in BOOLEAN, v \in MetricValues : CollectStep(err, v) /\ MonFrame
    \/ \E err \in BOOLEAN, alertErr \in BOOLEAN, mailOk \in BOOLEAN :
          CheckAlertsStep(err, alertErr, mailOk) /\ MonFrame
    \/ CollectLogs /\ CmFrame
    \/ CollectCleanup /\ CmFrame
    \/ CollectExit /\ CmFrame
SpecCollect == CollectInit /\ [][CollectNext]_vars

(***************************************************************************)
(* Properties of the nftables workflow (Spec).                             *)
(***************************************************************************)
Generated == GenerateConfig(pfRows, fwRows)

\* C1: every save (create or update) and every delete of a PortForward or
\* NFTableRule row starts exactly one run of apply_network_changes, and
\* nothing else starts one; the run's new_config is the complete
\* configuration generated from the rows the database holds at that moment,
\* and what write_config puts in the configuration file is that whole
\* new_config, whatever the file held before.
C1_ChangeTriggersWholesaleApply ==
    [][ /\ nRuns' - nRuns = nChanges' - nChanges
        /\ nChanges' # nChanges =>
              \E p \in Procs : /\ pc[p] = "idle" /\ pc'[p] = "backup"
                               /\ applyResult'[p] = "running"
        /\ \A p \in Procs :
              /\ (newConfig'[p] # newConfig[p] /\ newConfig'[p] # NoFile) =>
                    newConfig'[p] = GenerateConfig(pfRows, fwRows)
              /\ (pc[p] = "write" /\ pc'[p] = "apply") =>
                    configFile' = newConfig[p]
      ]_vars

\* C1: a delete started a run, which generated the configuration from the
\* database and wrote it
C1_Witness_DeleteRegenerated ==
    \E p \in Procs :
        /\ req[p].op = "delete"
        /\ pc[p] = "apply"
        /\ nRuns = 2
        /\ configFile = Generated

\* C2: once no request is being served any more and every worker's run of
\* apply_network_changes returned success, the configuration file and the
\* ruleset nft loaded are the configuration generated from the database.
C2_FinalConfigMatchesDatabase ==
    ( /\ \A p \in Procs : pc[p] = "idle" /\ applyResult[p] = "ok"
      /\ nFailures = 0 )
    => (configFile = Generated /\ live.loaded = Generated)

\* C8: no run of apply_network_changes ends by letting an exception through.
C8_NeverPropagates == \A p \in Procs : applyResult[p] # "raised"

\* a line of the DNAT placeholder that is a rule:
\* <protocol> dport <external_port> dnat to <ip>:<port>
IsDnatRule(line) == Len(line) >= 4 /\ line[2] = "dport" /\ line[4] = "dnat"

NoDuplicateDnat(cfg) ==
    \A i, j \in 1..Len(cfg.dnat) :
        (i # j /\ IsDnatRule(cfg.dnat[i]) /\ IsDnatRule(cfg.dnat[j])) =>
            ~(cfg.dnat[i][1] = cfg.dnat[j][1] /\ cfg.dnat[i][3] = cfg.dnat[j][3])

\* C9: whatever rows the add_port_forward requests have created, the
\* configuration generate_config produces, every new_config a run holds and
\* the configuration file hold no two DNAT rules with the same protocol and
\* external port.
C9_NoDuplicateDnatRule ==
    /\ NoDuplicateDnat(Generated)
    /\ configFile # NoFile => NoDuplicateDnat(configFile)
    /\ \A p \in Procs : newConfig[p] # NoFile => NoDuplicateDnat(newConfig[p])

\* C9: two enabled port forwards of the same external port, one per protocol,
\* each with its DNAT rule
C9_Witness_TwoForwardsOnePort ==
    /\ \E a, b \in pfRows :
          /\ a # b /\ a.enabled /\ b.enabled
          /\ a.external_port = b.external_port
    /\ Cardinality({i \in 1..Len(Generated.dnat) : IsDnatRule(Generated.dnat[i])}) = 2

(***************************************************************************)
(* Properties of the apply_network_config command (SpecCommand).           *)
(***************************************************************************)
\* C10: a run of the command without --dry-run that is over printed the
\* database summary and reported how apply_network_changes ended.
C10_CommandPrintsAndApplies ==
    \A p \in Procs :
        (pc[p] = "idle" /\ cmdOut[p].summary # "none" /\ ~cmdOut[p].dry_run)
        => /\ cmdOut[p].summary = "printed"
           /\ cmdOut[p].report \in {"ok", "failed", "raised"}

(***************************************************************************)
(* Properties of the Celery tasks and the collection cycle (SpecTasks).    *)
(***************************************************************************)
Metrics == "collect_system_metrics"

AllSteps == {CycleSteps[i] : i \in 1..Len(CycleSteps)}

\* C4: collect_system_metrics and collect_logs_task are retried with a
\* countdown of 60 seconds and at most 3 times, cleanup_old_data and
\* check_system_health with a countdown of 300 seconds and at most 2 times;
\* a task has failed for good only once it used all of its retries.
C4_FixedRetryPolicy ==
    \A t \in Tasks :
        LET short == t \in {"collect_system_metrics", "collect_logs_task"} IN
        /\ retries[t] <= (IF short THEN 3 ELSE 2)
        /\ tstate[t] = "retry" =>
              /\ countdown[t] = (IF short THEN 60 ELSE 300)
              /\ retries[t] >= 1
        /\ tstate[t] = "failure" => retries[t] = (IF short THEN 3 ELSE 2)

\* C4: a task of each kind kept failing: one has its last retry scheduled,
\* the other has used its retries up and failed
C4_Witness_RetriesUsedUp ==
    /\ tstate["collect_logs_task"] = "retry"
    /\ retries["collect_logs_task"] = 3
    /\ tstate["cleanup_old_data"] = "failure"
    /\ retries["cleanup_old_data"] = 2

\* C5: a run of collect_system_metrics returns its success result only if no
\* step of its collection cycle raised an error.
C5_FailedCycleTakesRetryPath ==
    tstate[Metrics] = "success" => cycleErr = "none"

\* C6: a collection cycle calls its steps in order and leaves none out,
\* whichever of them raised: while it runs, the steps before the current one
\* all ran, and when it is over all of them ran, check_alerts included.
C6_LogAndContinue ==
    /\ cyclePos \in 1..CycleDone =>
          cycleRan = {CycleSteps[i] : i \in 1..(cyclePos - 1)}
    /\ cyclePos = CycleDone => cycleRan = AllSteps

\* C6: a cycle whose first collector raised is over, and all the later
\* collectors and check_alerts ran
C6_Witness_ErrorThenAllRan ==
    /\ cyclePos = CycleDone
    /\ cycleErr = "cpu"
    /\ cycleRan = AllSteps

(***************************************************************************)
(* Properties of the alerts (SpecMonitor).                                 *)
(***************************************************************************)
ConditionHolds(a) ==
    EvaluateAlertCondition(LatestMetric(a), a.comparison_operator,
                           a.threshold_value)

\* C3: when a collection cycle is over in which no step raised, every
\* instance of an enabled alert whose condition does not hold for the latest
\* metric is resolved (its resolved_at is set).
C3_ResolvedOnceConditionClears ==
    (cyclePos = CycleDone /\ cycleErr = "none") =>
        \A a \in alerts, i \in instances :
            ( /\ i.alert = a.id
              /\ a.enabled
              /\ LatestMetric(a) # NoValue
              /\ ~ConditionHolds(a) )
            => i.resolved_at # NoTime

(***************************************************************************)
(* Properties of the run_command helpers (SpecRunCommand).                 *)
(***************************************************************************)
CommandFailed == rcCall.out.kind # "exit" \/ rcCall.out.returncode # 0

\* dashboard.utils.run_command on a non-zero exit status: the result has the
\* status and the output, and no "error"
DashboardNonZeroExit ==
    /\ rcCall.helper = "dashboard"
    /\ rcCall.out.kind = "exit"
    /\ rcCall.out.returncode # 0

\* C7 as stated: a call of either helper returns, never raises; for a failed
\* command the result has "success": False and an "error" entry; the result
\* has "success": True only if the command exited with status 0.
C7_FailureHasErrorEntry ==
    rcPhase \in {"returned", "raised"} =>
        /\ rcPhase = "returned"
        /\ CommandFailed =>
              (rcResult.success = FALSE /\ "error" \in DOMAIN rcResult)
        /\ rcResult.success = TRUE => ~CommandFailed

\* C7 amended: a call of either helper returns, never raises; for a failed
\* command the result has "success": False, and it has an "error" entry unless
\* the helper is dashboard.utils.run_command and the command exited with a
\* non-zero status, where the result has no "error" entry and carries the
\* command's returncode, stdout and stderr; the result has "success": True
\* only if the command exited with status 0.
C7_FailureReported ==
    rcPhase \in {"returned", "raised"} =>
        /\ rcPhase = "returned"
        /\ CommandFailed =>
              /\ rcResult.success = FALSE
              /\ IF DashboardNonZeroExit
                 THEN /\ "error" \notin DOMAIN rcResult
                      /\ rcResult.returncode = rcCall.out.returncode
                      /\ rcResult.stdout = rcCall.out.stdout
                      /\ rcResult.stderr = rcCall.out.stderr
                 ELSE "error" \in DOMAIN rcResult
        /\ rcResult.success = TRUE => ~CommandFailed

\* C7: dashboard.utils.run_command returned for a command that exited with a
\* non-zero status
C7_Witness_DashboardNonZero ==
    /\ rcPhase = "returned"
    /\ DashboardNonZeroExit
    /\ rcResult.success = FALSE
    /\ rcResult.stderr = " err "

(***************************************************************************)
(* More properties of the apply_network_config command (SpecCommand).      *)
(***************************************************************************)
\* C11: a run of the command with --dry-run leaves the configuration file,
\* the backup file and the loaded ruleset as they are, runs no subprocess
\* that could fail, and starts no run of apply_network_changes: the process
\* is done when handle returns.
C11_DryRunChangesNothing ==
    [][ \A p \in Procs :
          (cmdOut'[p] # cmdOut[p] /\ cmdOut'[p].dry_run) =>
              /\ UNCHANGED <<configFile, backupFile, live, nFailures, nRuns,
                             pfRows, fwRows>>
              /\ pc'[p] = "idle"
              /\ applyResult'[p] = "none"
              /\ newConfig'[p] = NoFile
      ]_vars

\* C11: a dry run printed the summary and the generated configuration, on a
\* database that has an enabled port forward and an existing configuration
\* file
C11_Witness_DryRunPrinted ==
    \E p \in Procs :
        /\ cmdOut[p].dry_run
        /\ cmdOut[p].report = "dry_run"
        /\ pc[p] = "idle"
        /\ configFile # NoFile
        /\ \E r \in pfRows : r.enabled

(***************************************************************************)
(* Properties of the collect_metrics command (SpecCollect).                *)
(***************************************************************************)
\* C12: the command exits only when it was given --once, and then after
\* exactly one pass; without --once it goes on with further passes.
C12_OnceSelectsMode ==
    collectRun.phase = "exited" => (collectRun.once /\ collectRun.passes = 1)

\* C13: write_config replaces the configuration file only when nft -c has
\* accepted the candidate: the step that replaces it goes on to apply_config
\* with the candidate as the file, and when the validation fails
\* apply_network_changes returns a failure in a step that changes neither
\* the configuration file nor the live ruleset.
C13_ValidatedBeforeWritten ==
    [][\A p \in Procs :
          (pc[p] = "write" /\ pc'[p] # "write") =>
              /\ cmdOut'[p].message = "validation" =>
                    /\ applyResult'[p] = "failed"
                    /\ cmdOut'[p].report = "failed"
                    /\ configFile' = configFile
                    /\ live' = live
              /\ pc'[p] # "apply" => configFile' = configFile
              /\ pc'[p] = "apply" => configFile' = newConfig[p]]_vars

\* a command whose candidate nft -c rejected has reported the failure
C13_Witness_ValidationFailed ==
    \E p \in Procs :
        /\ cmdOut[p].message = "validation"
        /\ applyResult[p] = "failed"
        /\ configFile # NoFile
        /\ configFile # GenerateConfig(pfRows, fwRows)

\* C14: when apply_config fails after the new configuration was written,
\* apply_network_changes rolls back: as it returns that failure, the
\* configuration file again has the content it had when the call started.
C14_FailureRestoresFile ==
    [][\A p \in Procs :
          (pc[p] \in {"rollback_cp", "rollback_nft"}
              /\ pc'[p] \notin {"rollback_cp", "rollback_nft"}
              /\ applyResult'[p] = "failed") =>
                configFile' = startConfig[p]]_vars

\* C15: a run of apply_network_changes that fails, by its result or by an
\* exception, neither undoes nor blocks the database change that started
\* it: the step that ends the run leaves both tables as they are and the
\* request goes on with what follows save() / delete(); and no step of the
\* workflow touches the tables at all.
C15_FailureKeepsDatabaseChange ==
    [][/\ nChanges' = nChanges => UNCHANGED <<pfRows, fwRows>>
       /\ \A p \in Procs :
            (applyResult[p] = "running"
                /\ applyResult'[p] \in {"failed", "raised"}) =>
                  /\ UNCHANGED <<pfRows, fwRows>>
                  /\ pc'[p] = IF pending[p] # <<>> THEN "view_apply"
                                                   ELSE "idle"]_vars

\* the handler swallowed an exception: the row is there, the view goes on,
\* and neither the file nor the ruleset has the row's rules
C15_Witness_RowCommittedNotLive ==
    \E p \in Procs :
        /\ applyResult[p] = "raised"
        /\ pc[p] = "view_apply"
        /\ \E r \in pfRows : r.enabled
        /\ live.loaded # Generated
        /\ configFile # Generated

\* C16: once add_rule and add_port_forward requests, none of whose commands
\* failed, are all served on a system that had its configuration file, the
\* live ruleset is the one generate_config describes for the database and
\* holds no rule besides.
C16_LiveEqualsGenerated ==
    ( /\ \A p \in Procs : pc[p] = "idle"
      /\ nChanges >= 1
      /\ Cardinality(pfRows) + Cardinality(fwRows) = nChanges
      /\ nFailures = 0
      /\ configFile # NoFile )
    => live = [loaded |-> Generated, extra |-> <<>>]

\* C17: apply_network_changes does not need a configuration file to be
\* there: a call the command makes on a system without one, with no
\* subprocess failing, returns success, and the generated configuration is
\* then the file and the loaded ruleset.
C17_WorksWithoutConfigFile ==
    [][\A p \in Procs :
          ( /\ req[p].kind = "command"
            /\ applyResult[p] = "running"
            /\ applyResult'[p] # "running"
            /\ startConfig[p] = NoFile
            /\ nFailures' = 0 ) =>
              /\ applyResult'[p] = "ok"
              /\ configFile' = GenerateConfig(pfRows, fwRows)
              /\ live'.loaded = GenerateConfig(pfRows, fwRows)]_vars

\* a line of a configuration that is a rule, not a comment
IsRuleLine(line) ==
    line[1] \notin {"#", "# Port forward", "# DNAT for port",
                    "# No port forwarding rules", "# No DNAT rules",
                    "# No custom firewall rules"}

RuleLines(lines) == {i \in 1..Len(lines) : IsRuleLine(lines[i])}

BuiltFromEnabledRows(cfg, pfs, fws) ==
    LET enabledPf == {r \in pfs : r.enabled}
        enabledFw == {r \in fws : r.enabled}
    IN
    /\ Cardinality(RuleLines(cfg.forward)) = Cardinality(enabledPf)
    /\ Cardinality(RuleLines(cfg.dnat)) = Cardinality(enabledPf)
    /\ Cardinality(RuleLines(cfg.firewall)) = Cardinality(enabledFw)
    /\ \A r \in enabledPf :
          /\ \E i \in RuleLines(cfg.forward) :
                cfg.forward[i] = <<"ip", "daddr", r.internal_ip, r.protocol,
                                   "dport", PortStr(r.internal_port), "accept">>
          /\ \E i \in RuleLines(cfg.dnat) :
                cfg.dnat[i] = <<r.protocol, "dport", PortStr(r.external_port),
                                "dnat", "to", r.internal_ip,
                                PortStr(r.internal_port)>>
    /\ \A r \in enabledFw :
          \E i \in RuleLines(cfg.firewall) :
              /\ cfg.firewall[i][Len(cfg.firewall[i])] = r.action
              /\ i > 1 /\ cfg.firewall[i - 1] = <<"#", r.name>>

\* C18: the configuration a run of generate_config returns is built from
\* exactly the enabled rows of the database it read: per enabled port
\* forward one accept rule in the forward chain and one DNAT rule in
\* prerouting, for its protocol; per enabled firewall rule one rule in the
\* input chain, ending in the rule's action; and as many rule lines as
\* enabled rows, so that a disabled row contributes none.
C18_BuiltFromEnabledRows ==
    [][\A p \in Procs :
          (pc[p] = "generate" /\ pc'[p] = "write") =>
              BuiltFromEnabledRows(newConfig'[p], pfRows, fwRows)]_vars

\* generate_config has run on a database with an enabled and a disabled row
C18_Witness_EnabledAndDisabled ==
    \E p \in Procs :
        /\ pc[p] = "write"
        /\ newConfig[p] = GenerateConfig(pfRows, fwRows)
        /\ \E a \in fwRows : a.enabled
        /\ \E b \in pfRows : ~b.enabled

(***************************************************************************)
(* Properties of check_alerts (SpecMonitor).                               *)
(***************************************************************************)
\* value <operator> threshold, for the six operators an alert can have
Compares(value, operator, threshold) ==
    \/ operator = ">" /\ value > threshold
    \/ operator = "<" /\ value < threshold
    \/ operator = ">=" /\ value >= threshold
    \/ operator = "<=" /\ value <= threshold
    \/ operator = "==" /\ value = threshold
    \/ operator = "!=" /\ value # threshold

C20_SuppressedForCheckInterval ==
    [][\A i \in instances' \ instances, j \in instances, a \in alerts :
          (a.id = i.alert /\ j.alert = i.alert) =>
              i.triggered_at - j.triggered_at >= a.check_interval]_vars

====
